---- MODULE Spec2Model ----
(***************************************************************************)
(* Model of src/remote_access/extract_scrt_sessions.py: the locator        *)
(* find_sessions_root, the recursive extractor iter_sessions and the       *)
(* pipeline of main (parse, locate, extract, write the CSV).               *)
(*                                                                         *)
(* An XML document is a finite ordered tree.  Its elements are numbered    *)
(* 1..n in document order (the order of their start tags), element 1 is    *)
(* the root, parent[i] is the number of the parent of i (0 for the root)   *)
(* and label[i] holds the tag, the name attribute and the text of i.       *)
(***************************************************************************)
EXTENDS Integers, Sequences, FiniteSets, TLC

VARIABLES
    pc,            \* position of the run: main's stages, or the call of SpecIter
    tree,          \* the document read so far (main) or the tree of the call (SpecIter)
    sessions_root, \* result of find_sessions_root, or the node passed to iter_sessions
    arg_path,      \* the path main or the caller passes to iter_sessions
    sessions,      \* list(iter_sessions(...)): the session dicts, in yield order
    yielded_at,    \* history: for each dict of sessions, the element that yielded it
    yielded_path,  \* history: for each dict of sessions, the path list it was joined from
    csv,           \* rows received by the CSV sink so far, each a tuple of fields
    stderr,        \* diagnostics printed so far
    exit_code      \* exit status of the process, -1 while it runs

vars == << pc, tree, sessions_root, arg_path, sessions, yielded_at, yielded_path,
           csv, stderr, exit_code >>

(***************************************************************************)
(* Bounds of the model.                                                    *)
(***************************************************************************)
\* Largest number of elements of a document given to main.
MaxDocNodes == 6
\* Largest number of elements of a subtree given directly to iter_sessions.
MaxSubtreeNodes == 5

(***************************************************************************)
(* Values.                                                                 *)
(***************************************************************************)
\* Python's None where a string may stand: an absent attribute, an element
\* without text.
None == "<None>"

\* Python's None where an element may stand: element numbers start at 1.
NoNode == 0

\* Python truthiness of an optional string: None and "" are false.
Truthy(s) == s # None /\ s # ""

\* Python's `a or b` on optional strings.
Or(a, b) == IF Truthy(a) THEN a ELSE b

Elem(tag, name, text) == [tag |-> tag, name |-> name, text |-> text]

\* dict.get(key) / dict.get(key, default) on the attributes of an element:
\* the only attribute the program reads is "name".
AttribGet(lbl, default) == IF lbl.name = None THEN default ELSE lbl.name

(***************************************************************************)
(* Documents.                                                              *)
(***************************************************************************)
NoTree == [n |-> 0, parent |-> << >>, label |-> << >>]

Nodes(t) == 1 .. t.n

\* list(element): the children of element i, in document order.
Children(t, i) == SelectSeq([k \in 1 .. t.n |-> k], LAMBDA j : t.parent[j] = i)

\* The elements a start tag may be nested in when it follows element i
\* directly: i itself and the ancestors of i.
RECURSIVE OpenElements(_, _)
OpenElements(parent, i) ==
    IF i = 0 THEN {} ELSE {i} \cup OpenElements(parent, parent[i])

\* The documents that continue document t by one element labelled from
\* labels.  As in SecureCRT's exports, only the root and key elements
\* contain elements.
Extensions(t, labels) ==
    {[n |-> t.n + 1, parent |-> Append(t.parent, q), label |-> Append(t.label, l)] :
        q \in {a \in OpenElements(t.parent, t.n) : a = 1 \/ t.label[a].tag = "key"},
        l \in labels}

\* The parent tuples of the ordered trees of n elements numbered in document
\* order: each element after the first is nested in an element still open.
RECURSIVE Shapes(_)
Shapes(n) ==
    IF n = 1 THEN {<<0>>}
    ELSE UNION {{Append(p, q) : q \in OpenElements(p, n - 1)} : p \in Shapes(n - 1)}

\* Only the root and key elements contain elements.
WellNested(t) == \A i \in 2 .. t.n : t.parent[i] = 1 \/ t.label[t.parent[i]].tag = "key"

\* Elements of the documents main is run on.
DocLabels ==
    { Elem("key", "Sessions", None),
      Elem("key", "Work", None),
      Elem("key", "srv1", None),
      Elem("string", "Hostname", "10.0.0.5") }

\* The root element of an export is not a key.
DocRoot == Elem("VanDyke", None, None)

\* Elements of the subtrees iter_sessions is called on directly.
SubtreeLabels ==
    { Elem("key", "A", None),
      Elem("key", None, None),
      Elem("string", "Hostname", "h1"),
      Elem("string", "Hostname", "h2"),
      Elem("string", "Hostname", None),
      Elem("dword", "Hostname", "h3"),
      Elem("dword", "[SSH2] Port", "2222"),
      Elem("dword", "[SSH2] Port", None),
      Elem("string", "Protocol Name", "SSH1"),
      Elem("string", "Protocol Name", None) }

SubtreeRoot == Elem("key", "Top", None)

\* Paths a caller passes to iter_sessions.
CallerPaths == { << >>, <<"P">> }

(***************************************************************************)
(* find_sessions_root                                                      *)
(***************************************************************************)
RECURSIVE Flatten(_)
Flatten(ss) == IF ss = << >> THEN << >> ELSE Head(ss) \o Flatten(Tail(ss))

\* Element.iter(): the element, then the iter() of each child in order.
RECURSIVE Iter(_, _)
Iter(t, i) ==
    <<i>> \o Flatten([k \in DOMAIN Children(t, i) |-> Iter(t, Children(t, i)[k])])

\* root.findall(".//key"): the elements below root tagged key, root excluded.
FindAllDescendantKeys(t, root) ==
    SelectSeq(Tail(Iter(t, root)), LAMBDA j : t.label[j].tag = "key")

RECURSIVE Reverse(_)
Reverse(q) == IF q = << >> THEN << >> ELSE Append(Reverse(Tail(q)), Head(q))

\* FindAllChildKeys gone wrong: the child keys in reverse document order.
FindAllChildKeysReversed(t, node) ==
    Reverse(SelectSeq(Children(t, node), LAMBDA j : t.label[j].tag = "key"))

\* node.findall("key"): the children of node tagged key.
FindAllChildKeys(t, node) ==
    SelectSeq(Children(t, node), LAMBDA j : t.label[j].tag = "key")

\* find_sessions_root gone wrong: the last match instead of the first.
find_sessions_root_last(t, root) ==
    LET matches == SelectSeq(FindAllDescendantKeys(t, root),
                             LAMBDA key : AttribGet(t.label[key], None) = "Sessions")
    IN  IF matches # << >> THEN matches[Len(matches)] ELSE NoNode

\* find_sessions_root gone wrong: the document root when nothing matches.
find_sessions_root_or_root(t, root) ==
    LET matches == SelectSeq(FindAllDescendantKeys(t, root),
                             LAMBDA key : AttribGet(t.label[key], None) = "Sessions")
    IN  IF matches # << >> THEN Head(matches) ELSE root

find_sessions_root(t, root) ==
    LET matches == SelectSeq(FindAllDescendantKeys(t, root),
                             LAMBDA key : AttribGet(t.label[key], None) = "Sessions")
    IN  IF matches # << >> THEN Head(matches) ELSE NoNode

(***************************************************************************)
(* iter_sessions                                                           *)
(***************************************************************************)
\* "/".join(path)
RECURSIVE Join(_)
Join(path) ==
    IF path = << >> THEN ""
    ELSE IF Len(path) = 1 THEN path[1]
    ELSE path[1] \o "/" \o Join(Tail(path))

\* ScanFields gone wrong: the first occurrence of a field is kept.
RECURSIVE ScanFieldsFirstWins(_, _, _, _)
ScanFieldsFirstWins(t, cs, k, cand) ==
    IF k > Len(cs) THEN cand
    ELSE LET child == t.label[cs[k]]
             text == Or(child.text, "")
         IN  ScanFieldsFirstWins(t, cs, k + 1,
                 IF child.tag = "string" /\ AttribGet(child, None) = "Hostname"
                    /\ cand.hostname = None
                 THEN [cand EXCEPT !.hostname = text]
                 ELSE IF child.tag = "dword" /\ AttribGet(child, None) = "[SSH2] Port"
                         /\ cand.port = None
                 THEN [cand EXCEPT !.port = text]
                 ELSE IF child.tag = "string" /\ AttribGet(child, None) = "Protocol Name"
                         /\ cand.protocol = None
                 THEN [cand EXCEPT !.protocol = text]
                 ELSE cand)

\* The loop `for child in node` of a leaf: cand is the triple of candidate
\* values after the children before the k-th have been scanned.
RECURSIVE ScanFields(_, _, _, _)
ScanFields(t, cs, k, cand) ==
    IF k > Len(cs) THEN cand
    ELSE LET child == t.label[cs[k]]
             text == Or(child.text, "")
         IN  ScanFields(t, cs, k + 1,
                 IF child.tag = "string" /\ AttribGet(child, None) = "Hostname"
                 THEN [cand EXCEPT !.hostname = text]
                 ELSE IF child.tag = "dword" /\ AttribGet(child, None) = "[SSH2] Port"
                 THEN [cand EXCEPT !.port = text]
                 ELSE IF child.tag = "string" /\ AttribGet(child, None) = "Protocol Name"
                 THEN [cand EXCEPT !.protocol = text]
                 ELSE cand)

\* LeafYield gone wrong: `if hostname is not None` for `if hostname`.
LeafYieldIfNotNone(node, path, f) ==
    IF f.hostname # None
    THEN << [node |-> node, path |-> path,
             rec |-> [name |-> Join(path),
                      address |-> f.hostname,
                      port |-> Or(f.port, "22"),
                      protocol |-> Or(f.protocol, "SSH2")]] >>
    ELSE << >>

\* LeafYield gone wrong: the port defaults only when the field is absent.
LeafYieldDefaultIfAbsent(node, path, f) ==
    IF Truthy(f.hostname)
    THEN << [node |-> node, path |-> path,
             rec |-> [name |-> Join(path),
                      address |-> f.hostname,
                      port |-> IF f.port = None THEN "22" ELSE f.port,
                      protocol |-> Or(f.protocol, "SSH2")]] >>
    ELSE << >>

\* Lines 94-101: what a leaf yields once its children have been scanned into
\* the candidates f.  The yielded dict (rec) is kept together with the element
\* and the path list it was made from.
LeafYield(node, path, f) ==
    IF Truthy(f.hostname)
    THEN << [node |-> node, path |-> path,
             rec |-> [name |-> Join(path),
                      address |-> f.hostname,
                      port |-> Or(f.port, "22"),
                      protocol |-> Or(f.protocol, "SSH2")]] >>
    ELSE << >>

\* ChildPath gone wrong: the child's name put in front of the path.
ChildPathPrepended(path, child_name) == <<child_name>> \o path

\* Line 81: the path passed down to a child key.
ChildPath(path, child_name) == path \o <<child_name>>

\* iter_sessions gone wrong: a container is scanned for fields as well.
RECURSIVE iter_sessions_scans_containers(_, _, _)
iter_sessions_scans_containers(t, node, path) ==
    LET keys == FindAllChildKeys(t, node)
        own == LeafYield(node, path,
                   ScanFields(t, Children(t, node), 1,
                       [hostname |-> None, port |-> None, protocol |-> None]))
    IN  IF keys # << >>
        THEN own \o Flatten([k \in DOMAIN keys |->
                 LET child == keys[k]
                     child_name == AttribGet(t.label[child], "")
                 IN  iter_sessions_scans_containers(t, child, ChildPath(path, child_name))])
        ELSE own

\* The yields of iter_sessions(node, path), in order.
RECURSIVE iter_sessions(_, _, _)
iter_sessions(t, node, path) ==
    LET keys == FindAllChildKeys(t, node)
    IN  IF keys # << >>
        THEN Flatten([k \in DOMAIN keys |->
                 LET child == keys[k]
                     child_name == AttribGet(t.label[child], "")
                 IN  iter_sessions(t, child, ChildPath(path, child_name))])
        ELSE LeafYield(node, path,
                 ScanFields(t, Children(t, node), 1,
                     [hostname |-> None, port |-> None, protocol |-> None]))

Recs(ys) == [k \in DOMAIN ys |-> ys[k].rec]
YieldNodes(ys) == [k \in DOMAIN ys |-> ys[k].node]
YieldPaths(ys) == [k \in DOMAIN ys |-> ys[k].path]

(***************************************************************************)
(* main                                                                    *)
(***************************************************************************)
\* fieldnames gone wrong: two columns exchanged.
fieldnames_exchanged == <<"name", "port", "address", "protocol">>

fieldnames == <<"name", "address", "port", "protocol">>

\* RootPath gone wrong: the Sessions key's own name as first segment.
RootPathNamed == <<"Sessions">>

\* Line 120: the path main passes with the Sessions key.
RootPath == << >>

\* DictWriter.writerow: the values of the dict in the order of fieldnames.
Row(session) == [k \in DOMAIN fieldnames |-> session[fieldnames[k]]]

Init ==
    /\ pc = "start"
    /\ tree = NoTree
    /\ sessions_root = NoNode
    /\ arg_path = << >>
    /\ sessions = << >>
    /\ yielded_at = << >>
    /\ yielded_path = << >>
    /\ csv = << >>
    /\ stderr = << >>
    /\ exit_code = -1

\* Line 110: ET.parse reads the next element of the input and adds it to the
\* tree it builds.  The first element read is the root.
ParseElement ==
    /\ pc = "start"
    /\ tree.n < MaxDocNodes
    /\ IF tree.n = 0
       THEN tree' = [n |-> 1, parent |-> <<0>>, label |-> <<DocRoot>>]
       ELSE tree' \in Extensions(tree, DocLabels)
    /\ UNCHANGED << pc, sessions_root, arg_path, sessions, yielded_at, yielded_path,
                    csv, stderr, exit_code >>

\* Lines 109-114: ET.parse raises (the input is unreadable or malformed at
\* the point reached) and main never gets a tree; the diagnostic is printed
\* and the run exits 1.
ParseError ==
    /\ pc = "start"
    /\ tree' = NoTree
    /\ stderr' = Append(stderr, "Error parsing XML")
    /\ exit_code' = 1
    /\ pc' = "exit"
    /\ UNCHANGED << sessions_root, arg_path, sessions, yielded_at, yielded_path, csv >>

\* Lines 109-115: the input ends after a complete document; ET.parse returns.
ParseOk ==
    /\ pc = "start"
    /\ tree.n >= 1
    /\ pc' = "parsed"
    /\ UNCHANGED << tree, sessions_root, arg_path, sessions, yielded_at, yielded_path,
                    csv, stderr, exit_code >>

\* Lines 115-119: locate the Sessions key, or print the diagnostic and exit 1.
Locate ==
    /\ pc = "parsed"
    /\ LET found == find_sessions_root(tree, 1)
       IN  IF found = NoNode
           THEN /\ stderr' = Append(stderr, "Could not find Sessions node in XML.")
                /\ exit_code' = 1
                /\ pc' = "exit"
                /\ UNCHANGED sessions_root
           ELSE /\ sessions_root' = found
                /\ pc' = "located"
                /\ UNCHANGED << stderr, exit_code >>
    /\ UNCHANGED << tree, arg_path, sessions, yielded_at, yielded_path, csv >>

\* Line 120: sessions = list(iter_sessions(sessions_root, [])).
Extract ==
    /\ pc = "located"
    /\ LET ys == iter_sessions(tree, sessions_root, RootPath)
       IN  /\ sessions' = Recs(ys)
           /\ yielded_at' = YieldNodes(ys)
           /\ yielded_path' = YieldPaths(ys)
    /\ arg_path' = RootPath
    /\ pc' = "extracted"
    /\ UNCHANGED << tree, sessions_root, csv, stderr, exit_code >>

\* Lines 122-127: the sink is opened and the header row written.
WriteHeader ==
    /\ pc = "extracted"
    /\ csv' = Append(csv, fieldnames)
    /\ pc' = "writing"
    /\ UNCHANGED << tree, sessions_root, arg_path, sessions, yielded_at, yielded_path,
                    stderr, exit_code >>

\* Lines 128-129: one turn of the loop over sessions; csv holds the header
\* and the rows of the sessions before the current one.
WriteRow ==
    /\ pc = "writing"
    /\ Len(csv) - 1 < Len(sessions)
    /\ csv' = Append(csv, Row(sessions[Len(csv)]))
    /\ UNCHANGED << pc, tree, sessions_root, arg_path, sessions, yielded_at, yielded_path,
                    stderr, exit_code >>

\* Lines 130-132 and the return of main: the sink is closed, exit status 0.
Finish ==
    /\ pc = "writing"
    /\ Len(csv) - 1 = Len(sessions)
    /\ exit_code' = 0
    /\ pc' = "exit"
    /\ UNCHANGED << tree, sessions_root, arg_path, sessions, yielded_at, yielded_path,
                    csv, stderr >>

Next ==
    \/ ParseElement
    \/ ParseError
    \/ ParseOk
    \/ Locate
    \/ Extract
    \/ WriteHeader
    \/ WriteRow
    \/ Finish

Spec == Init /\ [][Next]_vars

(***************************************************************************)
(* iter_sessions called on its own, on any subtree and with any path.      *)
(***************************************************************************)
InitIter ==
    /\ pc = "call"
    /\ \E n \in 1 .. MaxSubtreeNodes : \E p \in Shapes(n) : \E l \in [2 .. n -> SubtreeLabels] :
          /\ tree = [n |-> n, parent |-> p,
                     label |-> [i \in 1 .. n |-> IF i = 1 THEN SubtreeRoot ELSE l[i]]]
          /\ WellNested(tree)
    /\ sessions_root = 1
    /\ arg_path \in CallerPaths
    /\ sessions = << >>
    /\ yielded_at = << >>
    /\ yielded_path = << >>
    /\ csv = << >>
    /\ stderr = << >>
    /\ exit_code = -1

\* list(iter_sessions(node, path))
CallIter ==
    /\ pc = "call"
    /\ LET ys == iter_sessions(tree, sessions_root, arg_path)
       IN  /\ sessions' = Recs(ys)
           /\ yielded_at' = YieldNodes(ys)
           /\ yielded_path' = YieldPaths(ys)
    /\ pc' = "returned"
    /\ UNCHANGED << tree, sessions_root, arg_path, csv, stderr, exit_code >>

NextIter == CallIter

SpecIter == InitIter /\ [][NextIter]_vars

(***************************************************************************)
(* What the claims speak of, stated on the document itself: by parent      *)
(* links and document order, not by the traversals above.                  *)
(***************************************************************************)
Range(f) == {f[k] : k \in DOMAIN f}

IsKey(t, v) == t.label[v].tag = "key"

\* v is top or lies below top.
InSubtree(t, top, v) == top \in OpenElements(t.parent, v)

\* The elements on the way from top (excluded) down to v (included).
RECURSIVE ChainBelow(_, _, _)
ChainBelow(t, top, v) ==
    IF v = top THEN << >> ELSE Append(ChainBelow(t, top, t.parent[v]), v)

\* v is top, or is reached from top through key elements only.
Visited(t, top, v) ==
    /\ InSubtree(t, top, v)
    /\ \A u \in Range(ChainBelow(t, top, v)) : IsKey(t, u)

HasChildKey(t, v) == \E j \in Nodes(t) : t.parent[j] = v /\ IsKey(t, j)

LeafCandidate(t, top, v) == Visited(t, top, v) /\ ~HasChildKey(t, v)

\* The children of v that are the field with this tag and name.
Occurrences(t, v, tag, name) ==
    {j \in Nodes(t) : t.parent[j] = v /\ t.label[j].tag = tag /\ t.label[j].name = name}

Max(S) == CHOOSE x \in S : \A y \in S : y <= x
Min(S) == CHOOSE x \in S : \A y \in S : x <= y

\* The text of the last such field of v, "" when the field has no text or v
\* has no such field.
LastText(t, v, tag, name) ==
    LET occ == Occurrences(t, v, tag, name)
    IN  IF occ = {} \/ t.label[Max(occ)].text = None THEN "" ELSE t.label[Max(occ)].text

\* The leaf candidates below top whose Hostname is not empty.
EmittingLeaves(t, top) ==
    {v \in Nodes(t) : LeafCandidate(t, top, v) /\ LastText(t, v, "string", "Hostname") # ""}

\* The name attributes along a chain of elements, "" where there is none.
NamesOf(t, chain) ==
    [k \in DOMAIN chain |-> IF t.label[chain[k]].name = None THEN "" ELSE t.label[chain[k]].name]

\* The elements of a set of numbers in increasing order.
RECURSIVE Ascending(_)
Ascending(S) == IF S = {} THEN << >> ELSE <<Min(S)>> \o Ascending(S \ {Min(S)})

\* The key elements named Sessions strictly below the root.
SessionsKeys(t) ==
    {j \in Nodes(t) : j # 1 /\ IsKey(t, j) /\ t.label[j].name = "Sessions"}

(***************************************************************************)
(* Claims about iter_sessions, checked under SpecIter.                     *)
(***************************************************************************)

\* C1: a leaf candidate of the subtree passed to iter_sessions yields a record
\* if and only if its Hostname is not empty: no record when the Hostname
\* field is absent or has no text, otherwise exactly one record, whose address
\* is the Hostname text.
C1_EmitIffHostname ==
    pc = "returned" =>
        \A v \in Nodes(tree) :
            LeafCandidate(tree, sessions_root, v) =>
                LET h == LastText(tree, v, "string", "Hostname")
                    at == {k \in DOMAIN yielded_at : yielded_at[k] = v}
                IN  IF h = ""
                    THEN at = {}
                    ELSE /\ Cardinality(at) = 1
                         /\ \A k \in at : sessions[k].address = h

\* A call that met a leaf whose Hostname field has no text and a leaf with a
\* Hostname, and yielded for the second only.
C1_Witness ==
    /\ pc = "returned"
    /\ Len(sessions) = 1
    /\ sessions[1].address = "h1"
    /\ \E v \in Nodes(tree) :
          /\ LeafCandidate(tree, sessions_root, v)
          /\ Occurrences(tree, v, "string", "Hostname") # {}
          /\ LastText(tree, v, "string", "Hostname") = ""

\* C2: in every record, port is "22" when the leaf's dword field "[SSH2] Port"
\* is absent or has no text and is the field's text otherwise; protocol is
\* "SSH2" when the leaf's string field "Protocol Name" is absent or has no
\* text and is the field's text otherwise; each default applies on its own.
C2_Defaults ==
    pc = "returned" =>
        \A k \in DOMAIN sessions :
            LET v == yielded_at[k]
                p == LastText(tree, v, "dword", "[SSH2] Port")
                q == LastText(tree, v, "string", "Protocol Name")
            IN  /\ sessions[k].port = IF p = "" THEN "22" ELSE p
                /\ sessions[k].protocol = IF q = "" THEN "SSH2" ELSE q

\* A record with the default port next to a protocol taken from the leaf,
\* the leaf having a port field without text.
C2_Witness ==
    /\ pc = "returned"
    /\ \E k \in DOMAIN sessions :
          /\ sessions[k].port = "22"
          /\ sessions[k].protocol = "SSH1"
          /\ Occurrences(tree, yielded_at[k], "dword", "[SSH2] Port") # {}

\* C3 as stated: the name of a record is the "/"-joined names of the
\* containers from the root of the extraction down to the leaf, the leaf's own
\* name left out.
C3_NameExcludesLeaf ==
    pc = "returned" =>
        \A k \in DOMAIN sessions :
            LET v == yielded_at[k]
                above == IF v = sessions_root THEN << >>
                         ELSE ChainBelow(tree, sessions_root, tree.parent[v])
            IN  sessions[k].name = Join(arg_path \o NamesOf(tree, above))

\* C3, amended: the name of a record is the "/"-joined sequence of the
\* caller's path followed by the name attributes of the key elements from
\* the first one below the root of the extraction down to the leaf, the
\* leaf's own name included (an element without name attribute gives an
\* empty segment).
C3_NameIncludesLeaf ==
    pc = "returned" =>
        \A k \in DOMAIN sessions :
            sessions[k].name =
                Join(arg_path \o NamesOf(tree, ChainBelow(tree, sessions_root, yielded_at[k])))

\* A session two keys below the root of the extraction, called with a
\* path that is not empty.
C3_Witness ==
    /\ pc = "returned"
    /\ arg_path # << >>
    /\ \E k \in DOMAIN sessions :
          /\ Len(ChainBelow(tree, sessions_root, yielded_at[k])) = 2
          /\ sessions[k].name = "P/A/A"

\* C9: an element with a child key yields no record of its own, whatever
\* fields it has: every record comes from a visited element without child key,
\* and there are as many records as leaf candidates with a Hostname.
C9_ContainersYieldNothing ==
    pc = "returned" =>
        /\ \A k \in DOMAIN yielded_at :
              /\ ~HasChildKey(tree, yielded_at[k])
              /\ Visited(tree, sessions_root, yielded_at[k])
        /\ Len(sessions) = Cardinality(EmittingLeaves(tree, sessions_root))

\* A container with a Hostname of its own and a child key that is a session.
C9_Witness ==
    /\ pc = "returned"
    /\ Len(sessions) = 1
    /\ \E v \in Nodes(tree) :
          /\ HasChildKey(tree, v)
          /\ LastText(tree, v, "string", "Hostname") = "h1"
          /\ sessions[1].address = "h2"

\* C10: when a leaf has several fields of the same tag and name, the last in
\* child order decides: address, port and protocol come from the last
\* occurrence of their field, and whether a record is yielded depends on the
\* text of the last Hostname.
C10_LastOccurrenceWins ==
    pc = "returned" =>
        \A v \in Nodes(tree) :
            LeafCandidate(tree, sessions_root, v) =>
                LET hs == Occurrences(tree, v, "string", "Hostname")
                    ps == Occurrences(tree, v, "dword", "[SSH2] Port")
                    qs == Occurrences(tree, v, "string", "Protocol Name")
                    at == {k \in DOMAIN yielded_at : yielded_at[k] = v}
                IN  /\ Cardinality(hs) >= 2 =>
                          IF tree.label[Max(hs)].text = None
                          THEN at = {}
                          ELSE at # {} /\ \A k \in at :
                                   sessions[k].address = tree.label[Max(hs)].text
                    /\ Cardinality(ps) >= 2 =>
                          \A k \in at :
                              sessions[k].port = IF tree.label[Max(ps)].text = None
                                                 THEN "22" ELSE tree.label[Max(ps)].text
                    /\ Cardinality(qs) >= 2 =>
                          \A k \in at :
                              sessions[k].protocol = IF tree.label[Max(qs)].text = None
                                                     THEN "SSH2" ELSE tree.label[Max(qs)].text

\* A leaf with two Hostname fields of different text and two port fields,
\* the last without text: the record has the second Hostname and port 22.
C10_Witness ==
    /\ pc = "returned"
    /\ \E k \in DOMAIN sessions :
          LET v == yielded_at[k]
              hs == Occurrences(tree, v, "string", "Hostname")
              ps == Occurrences(tree, v, "dword", "[SSH2] Port")
          IN  /\ Cardinality(hs) = 2
              /\ tree.label[Min(hs)].text = "h1"
              /\ sessions[k].address = "h2"
              /\ Cardinality(ps) = 2
              /\ tree.label[Min(ps)].text = "2222"
              /\ sessions[k].port = "22"

(***************************************************************************)
(* Claims about main, checked under Spec.                                  *)
(***************************************************************************)
Extracted == pc \in {"extracted", "writing", "exit"} /\ sessions_root # NoNode

\* C4: main starts the extraction at the Sessions key with an empty path, so
\* the Sessions key gives no segment: the path of a record has one segment per
\* key element from the first key below the Sessions key down to the leaf,
\* and the leaf srv1 under the key Work under the Sessions key is named
\* "Work/srv1".
C4_SegmentsBelowSessions ==
    Extracted =>
        \A k \in DOMAIN sessions :
            LET chain == ChainBelow(tree, sessions_root, yielded_at[k])
            IN  /\ yielded_path[k] = NamesOf(tree, chain)
                /\ Len(yielded_path[k]) = Len(chain)
                /\ ( /\ Len(chain) = 2
                     /\ tree.label[chain[1]].name = "Work"
                     /\ tree.label[chain[2]].name = "srv1" )
                   => sessions[k].name = "Work/srv1"

\* The document Sessions > Work > srv1 with Hostname 10.0.0.5, extracted.
C4_Witness ==
    /\ Extracted
    /\ tree.n = 5
    /\ tree.parent = <<0, 1, 2, 3, 4>>
    /\ tree.label[3].name = "Work"
    /\ tree.label[4].name = "srv1"
    /\ sessions = << [name |-> "Work/srv1", address |-> "10.0.0.5",
                      port |-> "22", protocol |-> "SSH2"] >>

\* C5: the records, and the data rows main writes from them, are in document
\* order of the leaves that yield them: the k-th record, and the k-th data row
\* once written, is that of the k-th leaf with a Hostname in document order;
\* none is left out, repeated or moved.
C5_DocumentOrder ==
    pc \in {"extracted", "writing", "exit"} =>
        LET leaves == Ascending(EmittingLeaves(tree, sessions_root))
        IN  /\ yielded_at = leaves
            /\ Len(sessions) = Len(leaves)
            /\ Len(csv) <= Len(leaves) + 1
            /\ \A k \in DOMAIN leaves :
                  LET name == Join(NamesOf(tree, ChainBelow(tree, sessions_root, leaves[k])))
                      address == LastText(tree, leaves[k], "string", "Hostname")
                  IN  /\ sessions[k].name = name
                      /\ sessions[k].address = address
                      /\ k + 1 <= Len(csv) => csv[k + 1][1] = name /\ csv[k + 1][2] = address

\* A finished run that wrote the rows of two sessions of different names.
C5_Witness ==
    /\ pc = "exit"
    /\ exit_code = 0
    /\ Len(csv) = 3
    /\ csv[2][1] = "Work"
    /\ csv[3][1] = "srv1"

\* C6: find_sessions_root returns the first element in document order, below
\* the root at any depth, that is tagged key and named Sessions; it returns
\* None exactly when there is none; and it leaves the tree as it is.
C6_FirstSessionsKey ==
    [][ pc = "parsed" =>
            /\ tree' = tree
            /\ IF SessionsKeys(tree) = {}
               THEN sessions_root' = NoNode /\ pc' = "exit"
               ELSE sessions_root' = Min(SessionsKeys(tree)) /\ pc' = "located" ]_vars

\* Two Sessions keys, the first in document order not a child of the root.
C6_Witness ==
    /\ pc = "located"
    /\ Cardinality(SessionsKeys(tree)) = 2
    /\ tree.parent[sessions_root] # 1
    /\ \E j \in SessionsKeys(tree) : tree.parent[j] = 1

ParseFailed == "Error parsing XML" \in Range(stderr)

\* C7: when the input does not parse or has no Sessions key, the run ends
\* with exit status 1 and the sink never receives a row, the header included.
C7_FatalWritesNothing ==
    (ParseFailed \/ (pc # "start" /\ SessionsKeys(tree) = {})) =>
        /\ csv = << >>
        /\ pc \in {"parsed", "exit"}
        /\ pc = "exit" => exit_code = 1

\* A run ended for want of a Sessions key, on a document that has a session.
C7_Witness ==
    /\ pc = "exit"
    /\ exit_code = 1
    /\ ~ParseFailed
    /\ tree.n = MaxDocNodes
    /\ \E v \in Nodes(tree) : tree.label[v].name = "Hostname"

====
